---------------------------- MODULE Spec2Model ----------------------------
(***************************************************************************)
(* A model of the fraud scoring scripts:                                   *)
(*   fraud_pipeline_2025_with_scoring.py   (the stateful pipeline)         *)
(*   enhanced_fraud_scorecard_2025.py      (the vectorised scorecard)      *)
(*                                                                         *)
(* Units.  Amounts are whole currency units.  Timestamps are whole hours   *)
(* since a Monday 00:00.  Raw scores are kept in TENTHS of a score point,  *)
(* so that the weights 1.5 and the scaling factors 1.2 and 0.5 are exact.  *)
(* A normalized score is a record [kind, n, d]: the rational n/d (d > 0),  *)
(* a NaN, or a logistic value kept symbolically by the raw score it was    *)
(* computed from.                                                          *)
(***************************************************************************)
EXTENDS Integers, Sequences, FiniteSets, TLC

VARIABLES
    input,            \* rows of transactions_2025.xlsx, in file order
    config,           \* arguments of compute_fraud_scores at the call site
    df,               \* the data frame after to_datetime and sort_values
    pc,               \* position of the script
    i,                \* position of the transaction loop in df
    account_context,  \* dict: account key -> context
    results,          \* list of result rows
    scored,           \* results_df after compute_fraud_scores
    call,             \* a direct call of one of the pure functions
    ret               \* and what it returned

vars == <<input, config, df, pc, i, account_context, results, scored, call, ret>>

(***************************************************************************)
(* Cell values.                                                            *)
(***************************************************************************)
\* a missing timestamp: pd.to_datetime leaves NaT
NaT == -1
\* a missing amount: read_excel leaves NaN
NaN == -1
\* a cell holding text that is no timestamp / no number
BadCell == -2

\* Python's abs
Abs(x) == IF x < 0 THEN -x ELSE x

\* txn.get(field, default) on a row: the default when the column is absent
Get(row, field, default) ==
    IF field \in DOMAIN row THEN row[field] ELSE default

(***************************************************************************)
(* Bounds and the sets the inputs are drawn from.                          *)
(***************************************************************************)
MaxTxns == 3

Accounts == {101, 102}

Parties == {"P1", "P2"}

\* hour 3 of a Monday (night), hour 9 of a Monday (day)
TimeValues == {3, 9}

AmountValues == {5000, 20000}

\* account_profiles_model.csv: account 101 has a profile, 102 has none
account_profiles ==
    (101 :> [mean_amt |-> 6000, std_amt |-> 1000, typical_currency |-> "USD"])

\* account_profiles.get(acct, {'mean_amt': 0, 'std_amt': 1, ...})
ProfileOf(acct, currency) ==
    IF acct \in DOMAIN account_profiles
    THEN account_profiles[acct]
    ELSE [mean_amt |-> 0, std_amt |-> 1, typical_currency |-> currency]

\* one row of the input file
Txn(a, t, p, amt) ==
    [ACCOUNT_KEY |-> a, TRANSACTION_LOCAL_DATE_TIME |-> t, PARTY_KEY |-> p,
     REQUESTED_AMOUNT_US_INTL |-> amt, CHANNEL |-> "Mobile", CURRENCY_CD |-> "USD"]

WellFormedTxns ==
    {Txn(a, t, p, amt) : a \in Accounts, t \in TimeValues, p \in Parties,
                         amt \in AmountValues}

\* the sequences over S of length at most n
SeqsUpTo(S, n) == UNION {[1..k -> S] : k \in 0..n}

\* the call site's arguments: normalization_method='minmax', and the defaults
DefaultConfig ==
    [normalization_method |-> "minmax", min_score |-> 0, max_score |-> 20]

(***************************************************************************)
(* Loading: to_datetime, then a stable sort by (account, timestamp).       *)
(***************************************************************************)
\* pd.to_datetime raises on a cell that is no timestamp
ToDatetimeRaises(rows) ==
    \E k \in 1..Len(rows) : rows[k].TRANSACTION_LOCAL_DATE_TIME = BadCell

\* the sort key order of sort_values(by=[ACCOUNT_KEY, TIME]); NaT sorts last
KeyLess(r, s) ==
    \/ r.ACCOUNT_KEY < s.ACCOUNT_KEY
    \/ /\ r.ACCOUNT_KEY = s.ACCOUNT_KEY
       /\ r.TRANSACTION_LOCAL_DATE_TIME # NaT
       /\ \/ s.TRANSACTION_LOCAL_DATE_TIME = NaT
          \/ r.TRANSACTION_LOCAL_DATE_TIME < s.TRANSACTION_LOCAL_DATE_TIME

\* insert row r into the sorted sequence s behind every row not greater
RECURSIVE InsertSorted(_, _)
InsertSorted(s, r) ==
    IF s = << >> THEN <<r>>
    ELSE IF KeyLess(r, Head(s)) THEN <<r>> \o s
    ELSE <<Head(s)>> \o InsertSorted(Tail(s), r)

\* mutant: the frame is left in file order
sort_values_FileOrder(rows) == rows

\* df.sort_values(by=[...], inplace=True): lexsort, stable
RECURSIVE SortValuesUpTo(_, _)
SortValuesUpTo(rows, n) ==
    IF n = 0 THEN << >>
    ELSE InsertSorted(SortValuesUpTo(rows, n - 1), rows[n])

sort_values(rows) == SortValuesUpTo(rows, Len(rows))

\* each row keeps its index label (its position in the file)
WithIndex(rows) ==
    [k \in 1..Len(rows) |-> [idx |-> k] @@ rows[k]]

Load ==
    /\ pc = "load"
    /\ IF ToDatetimeRaises(input)
       THEN /\ pc' = "crashed"
            /\ df' = df
       ELSE /\ pc' = "loop"
            /\ df' = sort_values(WithIndex(input))
    /\ UNCHANGED <<input, config, i, account_context, results, scored, call, ret>>

(***************************************************************************)
(* The transaction loop.                                                   *)
(***************************************************************************)
\* a fresh context: last_txn_time = now - timedelta(hours=2)
NewContext(now) ==
    [last_txn_time |-> IF now = NaT THEN NaT ELSE now - 2,
     parties_seen  |-> {},
     txn_times     |-> << >>]

\* mutant: the context is updated with the transaction when it is fetched,
\* before the transaction is evaluated
GetContext_UpdatesFirst(ctx, acct, now) ==
    LET c == IF acct \in DOMAIN ctx THEN ctx ELSE (acct :> NewContext(now)) @@ ctx
    IN  [c EXCEPT ![acct].last_txn_time = now,
                  ![acct].txn_times = Append(@, now)]

\* if acct not in account_context: account_context[acct] = {...}
GetContext(ctx, acct, now) ==
    IF acct \in DOMAIN ctx THEN ctx ELSE (acct :> NewContext(now)) @@ ctx

Fetch ==
    /\ pc = "loop"
    /\ i <= Len(df)
    /\ account_context' =
           GetContext(account_context, df[i].ACCOUNT_KEY,
                      df[i].TRANSACTION_LOCAL_DATE_TIME)
    /\ pc' = "eval"
    /\ UNCHANGED <<input, config, df, i, results, scored, call, ret>>

\* now.hour, now.dayofweek (NaT gives nan for both)
HourOf(now) == now % 24

DayOfWeek(now) == (now \div 24) % 7

BoolInt(b) == IF b THEN 1 ELSE 0

\* x > y as Python evaluates it on a number or NaN
Gt(x, y) == x # NaN /\ x > y

KI01(txn, profile) ==
    BoolInt(/\ txn.REQUESTED_AMOUNT_US_INTL # NaN
            /\ Abs(txn.REQUESTED_AMOUNT_US_INTL - profile.mean_amt)
                   > 2 * profile.std_amt)

KI02(txn) == BoolInt(Get(txn, "activity_days_ago", 0) > 30)

\* mutant: the new-payee indicator does not look at the context
KI03_AmountOnly(txn, context) ==
    BoolInt(Gt(txn.REQUESTED_AMOUNT_US_INTL, 10000))

KI03(txn, context) ==
    BoolInt(/\ txn.PARTY_KEY \notin context.parties_seen
            /\ Gt(txn.REQUESTED_AMOUNT_US_INTL, 10000))

KI04(txn) == BoolInt(Get(txn, "txn_sum_24h", 0) > 50000)

KI05(txn) ==
    BoolInt(/\ Get(txn, "country_cd", "None") \in {"IR", "RU", "NG", "CN"}
            /\ Get(txn, "is_first_foreign_txn", FALSE))

KI06(txn) ==
    BoolInt(/\ Get(txn, "acct_creation_days_ago", 100) <= 3
            /\ Get(txn, "txn_count_24h", 0) > 3)

KI07(txn) == BoolInt(Get(txn, "unique_payees_24h", 0) > 3)

KI08(txn) ==
    BoolInt(/\ Get(txn, "acct_creation_days_ago", 100) <= 7
            /\ Get(txn, "txn_count_24h", 0) > 2)

\* channel.lower()
Lower(s) ==
    CASE s = "Mobile" -> "mobile"
      [] s = "Web" -> "web"
      [] s = "WEB" -> "web"
      [] OTHER -> s

KI09(txn) ==
    BoolInt(/\ Lower(txn.CHANNEL) \in {"mobile", "web"}
            /\ Gt(txn.REQUESTED_AMOUNT_US_INTL, 5000))

KI10(txn) ==
    BoolInt(/\ Get(txn, "payee_usage_count", 10) < 2
            /\ Gt(txn.REQUESTED_AMOUNT_US_INTL, 5000))

KI11(txn) ==
    BoolInt(Get(txn, "country_cd", "None") \in {"IR", "RU", "NG", "CN", "KP"})

KI12(txn) == BoolInt(Get(txn, "large_txns_2h", 0) > 2)

KI14(txn) == BoolInt(Get(txn, "is_known_name_new_account", FALSE))

KI18(txn) ==
    LET now == txn.TRANSACTION_LOCAL_DATE_TIME
    IN  BoolInt(/\ now # NaT
                /\ \/ HourOf(now) \in {0, 1, 2, 3, 4, 5}
                   \/ DayOfWeek(now) >= 5)

KI19(txn) ==
    BoolInt(/\ Gt(txn.REQUESTED_AMOUNT_US_INTL, 100000)
            /\ ~Get(txn, "approval_flag", TRUE))

\* the kis dict of one iteration
Kis(txn, profile, context) ==
    [KI01 |-> KI01(txn, profile), KI02 |-> KI02(txn), KI03 |-> KI03(txn, context),
     KI04 |-> KI04(txn), KI05 |-> KI05(txn), KI06 |-> KI06(txn),
     KI07 |-> KI07(txn), KI08 |-> KI08(txn), KI09 |-> KI09(txn),
     KI10 |-> KI10(txn), KI11 |-> KI11(txn), KI12 |-> KI12(txn),
     KI14 |-> KI14(txn), KI18 |-> KI18(txn), KI19 |-> KI19(txn)]

\* result = {...}; result.update(kis)
ResultRow(txn, kis) ==
    kis @@ [ACCOUNT_KEY |-> txn.ACCOUNT_KEY,
            PARTY_KEY |-> txn.PARTY_KEY,
            REQUESTED_AMOUNT_US_INTL |-> txn.REQUESTED_AMOUNT_US_INTL,
            TRANSACTION_LOCAL_DATE_TIME |-> txn.TRANSACTION_LOCAL_DATE_TIME]

\* amount - profile['mean_amt'] raises TypeError on a text cell
Evaluate ==
    /\ pc = "eval"
    /\ LET txn     == df[i]
           profile == ProfileOf(txn.ACCOUNT_KEY, txn.CURRENCY_CD)
           context == account_context[txn.ACCOUNT_KEY]
       IN  IF txn.REQUESTED_AMOUNT_US_INTL = BadCell
           THEN /\ pc' = "crashed"
                /\ results' = results
           ELSE /\ pc' = "update"
                /\ results' = Append(results, ResultRow(txn, Kis(txn, profile, context)))
    /\ UNCHANGED <<input, config, df, i, account_context, scored, call, ret>>

\* mutant: every context shares one parties_seen set
UpdateContext_SharedSet(ctx, txn) ==
    [a \in DOMAIN ctx |->
        IF a = txn.ACCOUNT_KEY
        THEN [last_txn_time |-> txn.TRANSACTION_LOCAL_DATE_TIME,
              parties_seen  |-> ctx[a].parties_seen \cup {txn.PARTY_KEY},
              txn_times     |-> Append(ctx[a].txn_times,
                                       txn.TRANSACTION_LOCAL_DATE_TIME)]
        ELSE [ctx[a] EXCEPT !.parties_seen = @ \cup {txn.PARTY_KEY}]]

\* context['last_txn_time'] = now; txn_times.append(now); parties_seen.add(party)
UpdateContext(ctx, txn) ==
    [ctx EXCEPT ![txn.ACCOUNT_KEY] =
        [last_txn_time |-> txn.TRANSACTION_LOCAL_DATE_TIME,
         parties_seen  |-> @.parties_seen \cup {txn.PARTY_KEY},
         txn_times     |-> Append(@.txn_times, txn.TRANSACTION_LOCAL_DATE_TIME)]]

Update ==
    /\ pc = "update"
    /\ account_context' = UpdateContext(account_context, df[i])
    /\ i' = i + 1
    /\ pc' = "loop"
    /\ UNCHANGED <<input, config, df, results, scored, call, ret>>

(***************************************************************************)
(* Scoring: compute_fraud_scores and band.                                 *)
(***************************************************************************)
\* ki_weights, in tenths
ki_weights ==
    [KI01 |-> 20, KI02 |-> 15, KI03 |-> 20, KI04 |-> 20, KI05 |-> 15,
     KI06 |-> 20, KI07 |-> 15, KI08 |-> 15, KI09 |-> 15, KI10 |-> 15,
     KI11 |-> 20, KI12 |-> 20, KI14 |-> 20, KI18 |-> 10, KI19 |-> 20]

\* the order ki_weights.items() yields
ki_order ==
    <<"KI01", "KI02", "KI03", "KI04", "KI05", "KI06", "KI07", "KI08", "KI09",
      "KI10", "KI11", "KI12", "KI14", "KI18", "KI19">>

\* sum(df.get(ki, 0) * weight for ki, weight in ki_weights.items()), in tenths
RECURSIVE SumWeighted(_, _, _, _)
SumWeighted(row, weights, order, n) ==
    IF n = 0 THEN 0
    ELSE SumWeighted(row, weights, order, n - 1)
             + Get(row, order[n], 0) * weights[order[n]]

raw_score(row, weights, order) == SumWeighted(row, weights, order, Len(order))

\* a float as the model keeps it
Num(n, d) == [kind |-> "num", n |-> n, d |-> d]

NaNScore == [kind |-> "nan", n |-> 0, d |-> 1]

\* n / d in float arithmetic: a zero divisor gives inf, -inf or nan
Divide(n, d) ==
    IF d > 0 THEN Num(n, d)
    ELSE IF d < 0 THEN Num(-n, -d)
    ELSE IF n > 0 THEN [kind |-> "inf", n |-> 0, d |-> 1]
    ELSE IF n < 0 THEN [kind |-> "ninf", n |-> 0, d |-> 1]
    ELSE NaNScore

\* mutant: the clip has no upper bound
Clip01_LowerOnly(x) ==
    CASE x.kind = "nan" -> x
      [] x.kind = "inf" -> Num(1, 1)
      [] x.kind = "ninf" -> Num(0, 1)
      [] OTHER -> IF x.n < 0 THEN Num(0, 1) ELSE x

\* .clip(0, 1): NaN stays NaN
Clip01(x) ==
    CASE x.kind = "nan" -> x
      [] x.kind = "inf" -> Num(1, 1)
      [] x.kind = "ninf" -> Num(0, 1)
      [] OTHER -> IF x.n < 0 THEN Num(0, 1)
                  ELSE IF x.n > x.d THEN Num(1, 1)
                  ELSE x

\* x * 100
Times100(x) == IF x.kind = "num" THEN Num(100 * x.n, x.d) ELSE x

\* ((raw - min_score) / (max_score - min_score)).clip(0, 1) * 100; raw in tenths
minmax(raw, min_score, max_score) ==
    Times100(Clip01(Divide(raw - 10 * min_score, 10 * (max_score - min_score))))

\* (1 / (1 + exp(-0.1 * (raw - 5)))) * 100, kept by its argument
logistic(raw) == [kind |-> "logistic", n |-> raw, d |-> 1]

\* logistic(raw) >= t for the two thresholds the bands use: with raw in tenths,
\* 100/(1+exp(-0.1(raw-5))) >= 71 iff raw >= 13.954.., >= 41 iff raw >= 1.360..
LogisticGE(raw, t) ==
    CASE t = 71 -> raw >= 140
      [] t = 41 -> raw >= 14
      [] OTHER -> FALSE

\* score >= t on floats: false on NaN
GE(score, t) ==
    CASE score.kind = "num" -> score.n >= t * score.d
      [] score.kind = "logistic" -> LogisticGE(score.n, t)
      [] OTHER -> FALSE

\* mutant: the thresholds are exclusive
band_Exclusive(score) ==
    IF GE(score, 71) /\ score.n # 71 * score.d THEN "High Risk"
    ELSE IF GE(score, 41) /\ score.n # 41 * score.d THEN "Medium Risk"
    ELSE "Low Risk"

\* band inside compute_fraud_scores
band(score) ==
    IF GE(score, 71) THEN "High Risk"
    ELSE IF GE(score, 41) THEN "Medium Risk"
    ELSE "Low Risk"

Supported(method) == method \in {"minmax", "logistic"}

normalized_score(raw, method, min_score, max_score) ==
    IF method = "minmax" THEN minmax(raw, min_score, max_score)
    ELSE logistic(raw)

\* compute_fraud_scores on one row; the raw score is stored before the method
\* is looked at
ScoreRow(row, weights, order, method, min_score, max_score) ==
    LET raw == raw_score(row, weights, order)
    IN  IF Supported(method)
        THEN LET norm == normalized_score(raw, method, min_score, max_score)
             IN  [raw_score |-> raw, normalized_score |-> norm,
                  risk_band |-> band(norm)] @@ row
        ELSE [raw_score |-> raw] @@ row

compute_fraud_scores(rows, weights, order, method, min_score, max_score) ==
    [k \in 1..Len(rows) |->
        ScoreRow(rows[k], weights, order, method, min_score, max_score)]

\* results_df = compute_fraud_scores(results_df, ...), then the export
Finalize ==
    /\ pc = "loop"
    /\ i > Len(df)
    /\ scored' = compute_fraud_scores(results, ki_weights, ki_order,
                                      config.normalization_method,
                                      config.min_score, config.max_score)
    /\ pc' = IF Supported(config.normalization_method) THEN "done" ELSE "error"
    /\ UNCHANGED <<input, config, df, i, account_context, results, call, ret>>

(***************************************************************************)
(* The pipeline on well-formed input, as the script calls it.              *)
(***************************************************************************)
NoCall == [fn |-> "none"]

InitRest ==
    /\ df = << >>
    /\ pc = "load"
    /\ i = 1
    /\ account_context = << >>
    /\ results = << >>
    /\ scored = << >>
    /\ call = NoCall
    /\ ret = NoCall

Init ==
    /\ input \in SeqsUpTo(WellFormedTxns, MaxTxns)
    /\ config = DefaultConfig
    /\ InitRest

Next == Load \/ Fetch \/ Evaluate \/ Update \/ Finalize

Spec == Init /\ [][Next]_vars

(***************************************************************************)
(* enhanced_fraud_scorecard_2025.py: one row of the engineered data frame. *)
(***************************************************************************)
\* country_risk.get(c, 0)
country_risk(c) ==
    CASE c = "USA" -> 5
      [] c = "UK" -> 5
      [] c = "Argentina" -> 10
      [] c = "Brazil" -> 20
      [] c = "Nigeria" -> 30
      [] c = "Russia" -> 30
      [] c = "CN" -> 25
      [] c = "IR" -> 30
      [] c = "NG" -> 30
      [] c = "KP" -> 30
      [] OTHER -> 0

\* One item of a comma-separated history cell: the code and whether the item
\* carries a blank in front of it (as in "USA, UK").  A cell is absent (the
\* column is missing, row.get gives ""), NaN (an empty spreadsheet cell, str
\* gives "nan"), or text: the sequence of its items.
Item(code, pad) == [code |-> code, pad |-> pad]

AbsentCell == [kind |-> "absent", items |-> << >>]

NaNCell == [kind |-> "nan", items |-> << >>]

TextCell(items) == [kind |-> "text", items |-> items]

\* set(str(cell).split(",")): the items as they stand, blanks kept
SplitSet(cell) ==
    CASE cell.kind = "absent" -> {Item("", FALSE)}
      [] cell.kind = "nan" -> {Item("nan", FALSE)}
      [] OTHER -> {cell.items[k] : k \in 1..Len(cell.items)}

\* c.strip()
Strip(item) == item.code

\* sum([country_risk.get(c.strip(), 0) for c in new_countries])
RECURSIVE SumRisk(_)
SumRisk(items) ==
    IF items = {} THEN 0
    ELSE LET c == CHOOSE c \in items : TRUE
         IN  country_risk(Strip(c)) + SumRisk(items \ {c})

\* 1.2 if len(prev_countries) <= 2 else 1.0 if len(prev_countries) <= 5 else 0.5,
\* in tenths
Scaling(prev_countries) ==
    IF Cardinality(prev_countries) <= 2 THEN 12
    ELSE IF Cardinality(prev_countries) <= 5 THEN 10
    ELSE 5

\* compute_ki05_score(row), in tenths
compute_ki05_score(row) ==
    LET prev_countries == SplitSet(Get(row, "prev_foreign_countries", AbsentCell))
        curr_countries == SplitSet(Get(row, "curr_foreign_countries", AbsentCell))
        new_countries  == curr_countries \ prev_countries
    IN  SumRisk(new_countries) * Scaling(prev_countries)

KI01_amt_deviation(row) ==
    BoolInt(Abs(row.REQUESTED_AMOUNT_US_INTL - row.account_mean_amt)
                > 2 * row.account_std_amt)

KI02_night_txn(row) == BoolInt(row.hour \in {0, 1, 2, 3, 4, 5})

KI03_new_payee_high_amt(row) ==
    BoolInt(row.is_new_party /\ row.REQUESTED_AMOUNT_US_INTL > 10000)

KI04_burst_txns(row) == BoolInt(row.txn_count_24h > 4)

KI05_new_foreign_country(score) == BoolInt(score > 0)

KI06_new_acct_high_txn(row) ==
    BoolInt(row.acct_creation_days_ago < 5 /\ row.txn_count_24h > 3)

KI07_large_internal_transfer_no_dualauth(row) ==
    BoolInt(row.REQUESTED_AMOUNT_US_INTL > 100000 /\ ~row.approval_flag)

KI08_payee_risk_low_history(row) ==
    BoolInt(row.payee_usage_count < 2 /\ row.REQUESTED_AMOUNT_US_INTL > 7000)

\* the columns the feature engineering adds to a row
EnhancedKis(row) ==
    LET score == compute_ki05_score(row)
    IN  [KI01_amt_deviation |-> KI01_amt_deviation(row),
         KI02_night_txn |-> KI02_night_txn(row),
         KI03_new_payee_high_amt |-> KI03_new_payee_high_amt(row),
         KI04_burst_txns |-> KI04_burst_txns(row),
         KI05_new_foreign_country_score |-> score,
         KI05_new_foreign_country |-> KI05_new_foreign_country(score),
         KI06_new_acct_high_txn |-> KI06_new_acct_high_txn(row),
         KI07_large_internal_transfer_no_dualauth |->
             KI07_large_internal_transfer_no_dualauth(row),
         KI08_payee_risk_low_history |-> KI08_payee_risk_low_history(row)]

\* the scorecard's ki_weights, in tenths
enhanced_ki_weights ==
    [KI01_amt_deviation |-> 200, KI02_night_txn |-> 100,
     KI03_new_payee_high_amt |-> 300, KI04_burst_txns |-> 250,
     KI05_new_foreign_country |-> 400, KI06_new_acct_high_txn |-> 250,
     KI07_large_internal_transfer_no_dualauth |-> 300,
     KI08_payee_risk_low_history |-> 150]

enhanced_ki_order ==
    <<"KI01_amt_deviation", "KI02_night_txn", "KI03_new_payee_high_amt",
      "KI04_burst_txns", "KI05_new_foreign_country", "KI06_new_acct_high_txn",
      "KI07_large_internal_transfer_no_dualauth", "KI08_payee_risk_low_history">>

\* raw_score = 0; for ki, weight: raw_score += df[ki] * weight
RECURSIVE AddWeighted(_, _, _, _)
AddWeighted(row, weights, order, n) ==
    IF n = 0 THEN 0
    ELSE AddWeighted(row, weights, order, n - 1) + row[order[n]] * weights[order[n]]

\* mutant: the sub-score is weighted like the indicators (by the weight of its
\* flag, 40) instead of being added as it is
enhanced_raw_score_Weighted(row) ==
    AddWeighted(row, enhanced_ki_weights, enhanced_ki_order,
                Len(enhanced_ki_order))
        + row.KI05_new_foreign_country_score * 40

\* ... then raw_score += KI05_new_foreign_country_score
enhanced_raw_score(row) ==
    AddWeighted(row, enhanced_ki_weights, enhanced_ki_order,
                Len(enhanced_ki_order))
        + row.KI05_new_foreign_country_score

\* raw.clip(0, 260)
Clip260(raw) == IF raw < 0 THEN 0 ELSE IF raw > 2600 THEN 2600 ELSE raw

\* (raw_score.clip(0, 260) / 260) * 100
enhanced_normalized_score(raw) == Times100(Divide(Clip260(raw), 2600))

\* band of the scorecard
enhanced_band(score) ==
    IF GE(score, 71) THEN "High Risk"
    ELSE IF GE(score, 41) THEN "Medium Risk"
    ELSE "Low Risk"

\* the scorecard on one row: every column it adds
EnhancedScore(row) ==
    LET withKis == EnhancedKis(row) @@ row
        raw     == enhanced_raw_score(withKis)
        norm    == enhanced_normalized_score(raw)
    IN  [raw_score |-> raw, normalized_score |-> norm,
         risk_band |-> enhanced_band(norm)] @@ withKis

(***************************************************************************)
(* The pipeline on input with missing or unreadable cells.                 *)
(***************************************************************************)
MalformedTxns ==
    {Txn(101, t, p, amt) : t \in {3, 9, NaT, BadCell}, p \in Parties,
                           amt \in {20000, NaN, BadCell}}

InitMalformed ==
    /\ input \in SeqsUpTo(MalformedTxns, MaxTxns)
    /\ config = DefaultConfig
    /\ InitRest

SpecMalformed == InitMalformed /\ [][Next]_vars

(***************************************************************************)
(* The pipeline with compute_fraud_scores called under other arguments.    *)
(***************************************************************************)
Configs ==
    {[normalization_method |-> m, min_score |-> b[1], max_score |-> b[2]] :
        m \in {"minmax", "logistic", "zscore"},
        b \in {<<0, 20>>, <<20, 20>>, <<20, 0>>}}

ConfigTxns == {Txn(a, 3, "P1", amt) : a \in Accounts, amt \in AmountValues}

InitConfig ==
    /\ input \in SeqsUpTo(ConfigTxns, MaxTxns)
    /\ config \in Configs
    /\ InitRest

SpecConfig == InitConfig /\ [][Next]_vars

(***************************************************************************)
(* Direct calls of the scoring functions, on arguments drawn from small    *)
(* sets.                                                                   *)
(***************************************************************************)
\* raw scores are drawn in half points, 0 .. MaxRawHalf / 2
MaxRawHalf == 60

\* the longest prior history drawn
MaxPrior == 7

RawHalves == 0..MaxRawHalf

\* (min_score, max_score)
NormBounds == {<<0, 20>>, <<5, 10>>, <<20, 20>>, <<20, 0>>}

\* normalized scores, in tenths: around both thresholds, and some far from them
BandTenths == (400..420) \cup (700..720) \cup {0, 250, 550, 850, 1000}

BandScores == {Num(t, 10) : t \in BandTenths} \cup {NaNScore}

CodeList ==
    <<"USA", "UK", "Argentina", "Brazil", "Nigeria", "Russia", "CN", "IR",
      "NG", "KP", "ZZ">>

\* "USA,UK,..." and "USA, UK, ...": the first n codes, without and with blanks
PriorText(n, padded) ==
    TextCell([k \in 1..n |-> Item(CodeList[k], padded /\ k > 1)])

PriorCells ==
    {PriorText(n, padded) : n \in 1..MaxPrior, padded \in BOOLEAN}
        \cup {AbsentCell, NaNCell}

CurrItems == {Item(c, pad) : c \in {"USA", "UK", "IR", "ZZ"}, pad \in BOOLEAN}

CurrCells ==
    {TextCell(items) : items \in [1..1 -> CurrItems] \cup [1..2 -> CurrItems]}
        \cup {AbsentCell, NaNCell}

\* the history columns of a row; an absent cell is a missing column
HistoryColumns(prev, curr) ==
    (IF prev = AbsentCell THEN << >> ELSE [prev_foreign_countries |-> prev])
        @@ (IF curr = AbsentCell THEN << >> ELSE [curr_foreign_countries |-> curr])

\* rows of transactions_2025_engineered.xlsx
EnhancedRows ==
    {[REQUESTED_AMOUNT_US_INTL |-> amt, account_mean_amt |-> 6000,
      account_std_amt |-> 1000, hour |-> h, is_new_party |-> np,
      txn_count_24h |-> cnt, acct_creation_days_ago |-> age,
      approval_flag |-> ok, payee_usage_count |-> use]
         @@ HistoryColumns(hist[1], hist[2]) :
        amt \in {5000, 8000, 200000}, h \in {3, 9}, np \in BOOLEAN,
        cnt \in {3, 4, 5}, age \in {2, 10}, ok \in BOOLEAN, use \in {1, 5},
        hist \in {<<AbsentCell, AbsentCell>>,
                  <<PriorText(1, FALSE), TextCell(<<Item("IR", FALSE)>>)>>,
                  <<PriorText(3, FALSE),
                    TextCell(<<Item("IR", FALSE), Item("KP", FALSE)>>)>>,
                  <<PriorText(6, FALSE), TextCell(<<Item("KP", FALSE)>>)>>}}

\* a result row whose indicators in `on` are 1, the others 0
KiRow(on) == [k \in DOMAIN ki_weights |-> IF k \in on THEN 1 ELSE 0]

\* band of both scripts on two scores
CallBand ==
    /\ pc = "calls"
    /\ \E s1, s2 \in BandScores :
          /\ call' = [fn |-> "band", s1 |-> s1, s2 |-> s2]
          /\ ret' = [pipeline |-> <<band(s1), band(s2)>>,
                     enhanced |-> <<enhanced_band(s1), enhanced_band(s2)>>]
    /\ pc' = "returned"
    /\ UNCHANGED <<input, config, df, i, account_context, results, scored>>

\* the normalization of both scripts on two raw scores: the pipeline's minmax
\* on h half points, the scorecard's on 5h points
CallNormalize ==
    /\ pc = "calls"
    /\ \E h1, h2 \in RawHalves, b \in NormBounds :
          /\ call' = [fn |-> "normalize", h1 |-> h1, h2 |-> h2,
                      min_score |-> b[1], max_score |-> b[2]]
          /\ ret' = [pipeline |-> <<minmax(5 * h1, b[1], b[2]),
                                    minmax(5 * h2, b[1], b[2])>>,
                     enhanced |-> <<enhanced_normalized_score(50 * h1),
                                    enhanced_normalized_score(50 * h2)>>]
    /\ pc' = "returned"
    /\ UNCHANGED <<input, config, df, i, account_context, results, scored>>

\* compute_ki05_score on a row, and the flag derived from it
CallKi05 ==
    /\ pc = "calls"
    /\ \E prev \in PriorCells, curr \in CurrCells :
          LET row   == HistoryColumns(prev, curr)
              score == compute_ki05_score(row)
          IN  /\ call' = [fn |-> "ki05", prev |-> prev, curr |-> curr]
              /\ ret' = [score |-> score,
                         flag |-> KI05_new_foreign_country(score)]
    /\ pc' = "returned"
    /\ UNCHANGED <<input, config, df, i, account_context, results, scored>>

\* compute_fraud_scores on a frame of one row
CallComputeFraudScores ==
    /\ pc = "calls"
    /\ \E on \in SUBSET DOMAIN ki_weights,
          curr \in {AbsentCell, TextCell(<<Item("IR", FALSE)>>)} :
          LET row == KiRow(on) @@ HistoryColumns(AbsentCell, curr)
          IN  /\ call' = [fn |-> "compute_fraud_scores", row |-> row]
              /\ ret' = compute_fraud_scores(<<row>>, ki_weights, ki_order,
                            DefaultConfig.normalization_method,
                            DefaultConfig.min_score, DefaultConfig.max_score)[1]
    /\ pc' = "returned"
    /\ UNCHANGED <<input, config, df, i, account_context, results, scored>>

\* the scorecard on one row
CallEnhancedScore ==
    /\ pc = "calls"
    /\ \E row \in EnhancedRows :
          /\ call' = [fn |-> "enhanced_score", row |-> row]
          /\ ret' = EnhancedScore(row)
    /\ pc' = "returned"
    /\ UNCHANGED <<input, config, df, i, account_context, results, scored>>

InitFn ==
    /\ input = << >>
    /\ config = DefaultConfig
    /\ df = << >>
    /\ pc = "calls"
    /\ i = 1
    /\ account_context = << >>
    /\ results = << >>
    /\ scored = << >>
    /\ call = NoCall
    /\ ret = NoCall

NextFn ==
    \/ CallBand
    \/ CallNormalize
    \/ CallKi05
    \/ CallComputeFraudScores
    \/ CallEnhancedScore

SpecFn == InitFn /\ [][NextFn]_vars

(***************************************************************************)
(* Properties of the pipeline.                                             *)
(***************************************************************************)
Acct(r) == r.ACCOUNT_KEY

Time(r) == r.TRANSACTION_LOCAL_DATE_TIME

\* input row m precedes input row k in its account's timestamp order
\* (file order among equal timestamps)
Precedes(m, k) ==
    /\ Acct(input[m]) = Acct(input[k])
    /\ \/ Time(input[m]) < Time(input[k])
       \/ Time(input[m]) = Time(input[k]) /\ m < k

PartiesBefore(k) ==
    {input[m].PARTY_KEY : m \in {m \in 1..Len(input) : Precedes(m, k)}}

\* the result rows of account a, as positions of results
RowsOf(a) == {j \in 1..Len(results) : Acct(results[j]) = a}

\* the positions of df the context of account a has been updated with
UpdatedOf(a) ==
    {j \in 1..Len(df) : Acct(df[j]) = a /\ j < i}

\* input row k has a result row (results[j] is the row of df[j])
Scored(k) == \E j \in 1..Len(results) : df[j].idx = k

\* C1, at evaluation: when transaction t of account A is evaluated, A's
\* parties_seen is exactly the set of parties of the transactions of A that
\* precede t in timestamp order: nothing of another account, nothing later.
C1_AtEval ==
    pc = "eval" =>
        account_context[Acct(df[i])].parties_seen = PartiesBefore(df[i].idx)

\* C1, across accounts: a step of the loop on a transaction of account A
\* leaves the context of every other account as it was.
C1_OthersUnchanged ==
    \A a \in DOMAIN account_context :
        (pc \in {"loop", "eval", "update"} /\ i <= Len(df) /\ a # Acct(df[i]))
            => (a \in DOMAIN account_context'
                /\ account_context'[a] = account_context[a])

\* C1: the context of account A at the evaluation of t holds exactly the
\* earlier transactions of A, and processing a transaction of A changes no
\* other account's context.
C1_ContextIsolation == [](C1_AtEval) /\ [][C1_OthersUnchanged]_vars

\* C1 witness: a transaction of the second account is evaluated after a
\* transaction of the first account with another party, and after an earlier
\* transaction of its own.
C1_Witness ==
    /\ pc = "eval"
    /\ account_context[Acct(df[i])].parties_seen # {}
    /\ \E a \in DOMAIN account_context :
          /\ a # Acct(df[i])
          /\ account_context[a].parties_seen
                 # account_context[Acct(df[i])].parties_seen
    /\ \E m \in 1..Len(input) :
          /\ Precedes(m, df[i].idx)
          /\ m > df[i].idx

\* C2: the first transaction of an account with a party, amount above 10000,
\* has KI03 = 1; every later transaction of that account with the same party
\* and the same amount has KI03 = 0, whatever was processed in between.
C2_NewPayee ==
    \A j \in 1..Len(results) :
        LET r == results[j]
            earlier == {m \in 1..(j - 1) :
                           /\ Acct(results[m]) = Acct(r)
                           /\ results[m].PARTY_KEY = r.PARTY_KEY}
        IN  /\ (earlier = {} /\ r.REQUESTED_AMOUNT_US_INTL > 10000)
                   => r.KI03 = 1
            /\ (\E m \in earlier : results[m].REQUESTED_AMOUNT_US_INTL
                                       = r.REQUESTED_AMOUNT_US_INTL)
                   => r.KI03 = 0

\* C2 witness: a party's first transaction (KI03 = 1), then a transaction with
\* another party, then the same party and amount again (KI03 = 0).
C2_Witness ==
    /\ Len(results) = 3
    /\ Acct(results[1]) = Acct(results[3])
    /\ Acct(results[1]) = Acct(results[2])
    /\ results[1].PARTY_KEY = results[3].PARTY_KEY
    /\ results[2].PARTY_KEY # results[1].PARTY_KEY
    /\ results[1].REQUESTED_AMOUNT_US_INTL = 20000
    /\ results[3].REQUESTED_AMOUNT_US_INTL = 20000
    /\ results[1].KI03 = 1
    /\ results[3].KI03 = 0

\* C3: every transaction's context update runs exactly once, after the
\* transaction was evaluated and its row emitted: an account's txn_times lists
\* the timestamps of exactly its emitted rows, less the one row whose update is
\* pending; so the k-th transaction of an account is evaluated against the
\* context with k - 1 updates, and no two against the same context.
C3_UpdateOncePerTxn ==
    /\ pc \in {"loop", "eval"} => Len(results) = i - 1
    /\ pc = "update" =>
          /\ Len(results) = i
          /\ Acct(results[i]) = Acct(df[i])
          /\ Time(results[i]) = Time(df[i])
          /\ results[i].PARTY_KEY = df[i].PARTY_KEY
    /\ \A a \in Accounts :
          LET pending == IF pc = "update" /\ Acct(df[i]) = a THEN 1 ELSE 0
          IN  IF a \in DOMAIN account_context
              THEN /\ Len(account_context[a].txn_times)
                          = Cardinality(RowsOf(a)) - pending
                   /\ Cardinality(UpdatedOf(a))
                          = Len(account_context[a].txn_times)
                   /\ \A n \in 1..Len(account_context[a].txn_times) :
                          \E j \in UpdatedOf(a) :
                              /\ Time(df[j]) = account_context[a].txn_times[n]
                              /\ Cardinality({m \in UpdatedOf(a) : m <= j}) = n
                   /\ UpdatedOf(a) # {} =>
                          account_context[a].last_txn_time
                              = Time(df[CHOOSE j \in UpdatedOf(a) :
                                            \A m \in UpdatedOf(a) : m <= j])
              ELSE RowsOf(a) = {}

\* C3 witness: the second transaction of an account has been evaluated and its
\* row emitted, and its update is still to run.
C3_Witness ==
    /\ pc = "update"
    /\ Len(account_context[Acct(df[i])].txn_times) = 1
    /\ Cardinality(RowsOf(Acct(df[i]))) = 2

\* input row k comes after a row of its account with a later timestamp
OutOfOrder(k) ==
    \E m \in 1..(k - 1) :
        /\ Acct(input[m]) = Acct(input[k])
        /\ Time(input[k]) < Time(input[m])

\* C4 as claimed: a transaction out of timestamp order in the input is
\* rejected: it gets no result row.
C4_OutOfOrderRejected ==
    \A k \in 1..Len(input) : OutOfOrder(k) => ~Scored(k)

\* C4 amended: the input is sorted by (account, timestamp) before the loop, so
\* a transaction out of order in the input is not rejected: it is evaluated at
\* its place in timestamp order (the rows of an account are emitted in
\* non-decreasing timestamp order), gets a result row and updates its context.
C4_OutOfOrderSorted ==
    /\ \A j, m \in 1..Len(results) :
          (j < m /\ Acct(results[j]) = Acct(results[m]))
              => Time(results[j]) <= Time(results[m])
    /\ pc = "done" =>
          \A k \in 1..Len(input) :
              /\ Scored(k)
              /\ input[k].PARTY_KEY
                     \in account_context[Acct(input[k])].parties_seen

\* C4 witness: the run has ended on an input holding a transaction out of order.
C4_Witness ==
    /\ pc = "done"
    /\ \E k \in 1..Len(input) : OutOfOrder(k) /\ Scored(k)

\* a row whose amount or timestamp is missing or unreadable
Malformed(r) ==
    \/ r.REQUESTED_AMOUNT_US_INTL \in {NaN, BadCell}
    \/ Time(r) \in {NaT, BadCell}

\* C5 as claimed: a transaction with a missing or unparseable amount or
\* timestamp gets no result row and no context update, and the run goes on.
C5_MalformedRejected ==
    /\ \A k \in 1..Len(input) : Malformed(input[k]) => ~Scored(k)
    /\ \A a \in DOMAIN account_context :
          \A n \in 1..Len(account_context[a].txn_times) :
              account_context[a].txn_times[n] # NaT

\* max_score <= min_score, or a method that is not supported
InvalidConfig(c) ==
    \/ ~Supported(c.normalization_method)
    \/ c.max_score <= c.min_score

\* C6 as claimed: under an invalid configuration no transaction is evaluated,
\* no context is created and no scores come out.
C6_ConfigFailsFast ==
    InvalidConfig(config) =>
        /\ results = << >>
        /\ DOMAIN account_context = {}
        /\ pc # "done"

(***************************************************************************)
(* Properties of the scoring functions.                                    *)
(***************************************************************************)
\* a normalized score is a number within [0, 100]
InRange(x) == x.kind = "num" /\ 0 <= x.n /\ x.n <= 100 * x.d

\* x <= y on numbers
LeQ(x, y) == x.n * y.d <= y.n * x.d

\* x = v on numbers
EqQ(x, v) == x.kind = "num" /\ x.n = v * x.d

\* C7: under minmax with max_score > min_score the normalized score lies in
\* [0, 100], is 0 at and below min_score, is 100 at and above max_score, and
\* does not decrease when the raw score grows; the scorecard's normalization
\* (bounds 0 and 260) behaves the same.
C7_MinMaxRange ==
    call.fn = "normalize" =>
        /\ call.max_score > call.min_score =>
              /\ \A k \in {1, 2} :
                    LET raw == 5 * (IF k = 1 THEN call.h1 ELSE call.h2)
                    IN  /\ InRange(ret.pipeline[k])
                        /\ raw <= 10 * call.min_score => EqQ(ret.pipeline[k], 0)
                        /\ raw >= 10 * call.max_score => EqQ(ret.pipeline[k], 100)
              /\ call.h1 <= call.h2 => LeQ(ret.pipeline[1], ret.pipeline[2])
        /\ \A k \in {1, 2} :
              LET raw == 50 * (IF k = 1 THEN call.h1 ELSE call.h2)
              IN  /\ InRange(ret.enhanced[k])
                  /\ raw <= 0 => EqQ(ret.enhanced[k], 0)
                  /\ raw >= 2600 => EqQ(ret.enhanced[k], 100)
        /\ call.h1 <= call.h2 => LeQ(ret.enhanced[1], ret.enhanced[2])

\* C7 witness: one raw score below min_score, one above max_score, and one
\* strictly between that maps strictly between 0 and 100.
C7_Witness ==
    /\ call.fn = "normalize"
    /\ call.min_score = 5
    /\ call.max_score = 10
    /\ call.h1 = 15
    /\ call.h2 = 25
    /\ ret.pipeline[1].n * 2 = ret.pipeline[1].d * 100
    /\ EqQ(ret.pipeline[2], 100)

\* the weighted sum of the indicator columns of a row
RECURSIVE SumOver(_, _, _)
SumOver(row, weights, names) ==
    IF names = {} THEN 0
    ELSE LET k == CHOOSE k \in names : TRUE
         IN  weights[k] * Get(row, k, 0) + SumOver(row, weights, names \ {k})

WeightedIndicators(row, weights) == SumOver(row, weights, DOMAIN weights)

\* C8 as claimed: in both scripts the raw score is the weighted sum of the
\* boolean indicators plus the country-risk sub-score of the row, added once.
C8_RawScoreBoth ==
    /\ call.fn = "enhanced_score" =>
          ret.raw_score = WeightedIndicators(ret, enhanced_ki_weights)
                              + compute_ki05_score(call.row)
    /\ call.fn = "compute_fraud_scores" =>
          ret.raw_score = WeightedIndicators(call.row, ki_weights)
                              + compute_ki05_score(call.row)

\* C8 amended: the scorecard's raw score is the weighted sum of its boolean
\* indicators plus the country-risk sub-score, added once and unweighted; the
\* pipeline's raw score is the weighted sum of its boolean indicators alone,
\* with no continuous sub-score; both are >= 0.
C8_RawScore ==
    /\ call.fn = "enhanced_score" =>
          /\ ret.raw_score = WeightedIndicators(ret, enhanced_ki_weights)
                                 + compute_ki05_score(call.row)
          /\ ret.raw_score >= 0
    /\ call.fn = "compute_fraud_scores" =>
          /\ ret.raw_score = WeightedIndicators(call.row, ki_weights)
          /\ ret.raw_score >= 0

\* C8 witness: a scorecard row with a positive sub-score and other indicators
\* set.
C8_Witness ==
    /\ call.fn = "enhanced_score"
    /\ ret.KI05_new_foreign_country_score = 360
    /\ ret.KI01_amt_deviation = 1
    /\ ret.KI02_night_txn = 1
    /\ ret.raw_score = 200 + 100 + 400 + 360

Tier(b) ==
    CASE b = "Low Risk" -> 0
      [] b = "Medium Risk" -> 1
      [] b = "High Risk" -> 2

\* the band the thresholds 41 and 71 give a score in tenths
BandOfTenths(t) ==
    IF t >= 710 THEN "High Risk"
    ELSE IF t >= 410 THEN "Medium Risk"
    ELSE "Low Risk"

\* C9: the band is High from 71 on, Medium from 41 to below 71, Low for
\* anything else; it never falls when the score grows; and the band functions
\* of the two scripts agree.
C9_Band ==
    call.fn = "band" =>
        /\ \A k \in {1, 2} :
              LET s == IF k = 1 THEN call.s1 ELSE call.s2
              IN  /\ ret.pipeline[k] =
                         (IF s.kind = "num" THEN BandOfTenths(s.n)
                                            ELSE "Low Risk")
                  /\ ret.enhanced[k] = ret.pipeline[k]
        /\ (call.s1.kind = "num" /\ call.s2.kind = "num" /\ call.s1.n < call.s2.n)
              => /\ Tier(ret.pipeline[1]) <= Tier(ret.pipeline[2])
                 /\ Tier(ret.enhanced[1]) <= Tier(ret.enhanced[2])

\* C9 witness: the scores exactly 41 and exactly 71.
C9_Witness ==
    /\ call.fn = "band"
    /\ call.s1 = Num(410, 10)
    /\ call.s2 = Num(710, 10)
    /\ ret.pipeline = <<"Medium Risk", "High Risk">>
    /\ ret.enhanced = <<"Medium Risk", "High Risk">>

\* the countries a history cell names: its items without their blanks
Countries(cell) ==
    IF cell.kind = "text"
    THEN {cell.items[k].code : k \in 1..Len(cell.items)}
    ELSE {}

RECURSIVE SumRiskOfCodes(_)
SumRiskOfCodes(codes) ==
    IF codes = {} THEN 0
    ELSE LET c == CHOOSE c \in codes : TRUE
         IN  country_risk(c) + SumRiskOfCodes(codes \ {c})

\* the sub-score as claimed, in tenths
ClaimedKi05(prev, curr) ==
    LET prior == Countries(prev)
        new   == Countries(curr) \ prior
        scale == IF Cardinality(prior) <= 2 THEN 12
                 ELSE IF Cardinality(prior) <= 5 THEN 10 ELSE 5
    IN  SumRiskOfCodes(new) * scale

\* C10 as claimed: the sub-score is the risk of the countries in the current
\* history that are not in the prior history, scaled by the number of prior
\* countries, also when items carry blanks; the flag is 1 exactly when the
\* sub-score is > 0.
C10_Ki05Score ==
    call.fn = "ki05" =>
        /\ ret.score = ClaimedKi05(call.prev, call.curr)
        /\ ret.flag = 1 <=> ret.score > 0

=============================================================================
